---- MODULE Spec2Model ----
(***************************************************************************)
(* Model of the qubes-g2g-report generator: job-name classification         *)
(* (job.py), per-component branch resolution (component.py) and the          *)
(* aggregation of the status table (report_builder.py).  A run is either    *)
(* ReportBuilder.generate_report of the package or the older script           *)
(* g2g-report.py, whose __main__ uses the ReportBuilder of its own file.      *)
(*                                                                           *)
(* Python strings are sequences of one-character strings, so that split,    *)
(* upper, lower, removeprefix, re.sub and the ordering used by sorted() are  *)
(* computed character by character.  Python dicts are sequences of           *)
(* <<key, value>> pairs in insertion order.                                  *)
(***************************************************************************)
EXTENDS Integers, Sequences, FiniteSets, TLC

(* ------------------------------------------------------------------ *)
(* Bounds of the explored inputs                                        *)
(* ------------------------------------------------------------------ *)
MaxJobs == 3
MaxTime == 2
MaxPipelines == 2
MaxComponents == 2
MaxPages == 21

(* ------------------------------------------------------------------ *)
(* Characters and strings                                               *)
(* ------------------------------------------------------------------ *)
Uppers == <<"A", "B", "C", "D", "E", "F", "G", "H", "I", "J", "K", "L", "M",
            "N", "O", "P", "Q", "R", "S", "T", "U", "V", "W", "X", "Y", "Z">>
Lowers == <<"a", "b", "c", "d", "e", "f", "g", "h", "i", "j", "k", "l", "m",
            "n", "o", "p", "q", "r", "s", "t", "u", "v", "w", "x", "y", "z">>
Digits == <<"0", "1", "2", "3", "4", "5", "6", "7", "8", "9">>
\* the characters of the model in code point order
Ascii == <<" ", "-", ".", "/">> \o Digits \o <<":">> \o Uppers \o <<"_">> \o Lowers

IndexOf(seq, c) == CHOOSE i \in 1..Len(seq) : seq[i] = c
InSeq(seq, c) == \E i \in 1..Len(seq) : seq[i] = c
Ord(c) == IndexOf(Ascii, c)

UpperChar(c) == IF InSeq(Lowers, c) THEN Uppers[IndexOf(Lowers, c)] ELSE c
LowerChar(c) == IF InSeq(Uppers, c) THEN Lowers[IndexOf(Uppers, c)] ELSE c
upper(s) == [i \in 1..Len(s) |-> UpperChar(s[i])]
lower(s) == [i \in 1..Len(s) |-> LowerChar(s[i])]
capitalize(s) == [i \in 1..Len(s) |-> IF i = 1 THEN UpperChar(s[i]) ELSE LowerChar(s[i])]

startswith(s, p) == Len(s) >= Len(p) /\ SubSeq(s, 1, Len(p)) = p
removeprefix(s, p) == IF startswith(s, p) THEN SubSeq(s, Len(p) + 1, Len(s)) ELSE s

RECURSIVE SplitAcc(_, _, _, _)
SplitAcc(s, sep, i, cur) ==
    IF i > Len(s) THEN <<cur>>
    ELSE IF s[i] = sep THEN <<cur>> \o SplitAcc(s, sep, i + 1, <<>>)
    ELSE SplitAcc(s, sep, i + 1, Append(cur, s[i]))
split(s, sep) == SplitAcc(s, sep, 1, <<>>)

\* re.sub('[^A-Za-z0-9]+', '', s)
IsAlnum(c) == InSeq(Uppers, c) \/ InSeq(Lowers, c) \/ InSeq(Digits, c)
AlnumOnly(s) == SelectSeq(s, IsAlnum)

\* s < t for Python strings: lexicographic by code point
RECURSIVE StrLess(_, _)
StrLess(s, t) ==
    IF t = <<>> THEN FALSE
    ELSE IF s = <<>> THEN TRUE
    ELSE IF Ord(Head(s)) # Ord(Head(t)) THEN Ord(Head(s)) < Ord(Head(t))
    ELSE StrLess(Tail(s), Tail(t))

\* Python's None, where a string is expected
None == <<"None">>

(* ------------------------------------------------------------------ *)
(* String literals of the program                                       *)
(* ------------------------------------------------------------------ *)
S_main == <<"m", "a", "i", "n">>
S_current == <<"c", "u", "r", "r", "e", "n", "t">>
S_next == <<"n", "e", "x", "t">>
S_name == <<"n", "a", "m", "e">>
S_release == <<"r", "e", "l", "e", "a", "s", "e">>
S_qubes == <<"q", "u", "b", "e", "s", "-">>
S_r == <<"r">>
S_QubesOS == <<"/", "Q", "u", "b", "e", "s", "O", "S", "/">>
S_Status == <<" ", "S", "t", "a", "t", "u", "s">>
S_svg == <<".", "s", "v", "g">>
S_failed == <<"f", "a", "i", "l", "e", "d">>
S_canceled == <<"c", "a", "n", "c", "e", "l", "e", "d">>
S_skipped == <<"s", "k", "i", "p", "p", "e", "d">>
S_successText == <<"s", "u", "c", "c", "e", "s", "s">>
S_passed == <<"p", "a", "s", "s", "e", "d">>

(* ------------------------------------------------------------------ *)
(* Enumerations (their members are named by their Python names)         *)
(* ------------------------------------------------------------------ *)
BUILD == <<"B", "U", "I", "L", "D">>
INSTALL == <<"I", "N", "S", "T", "A", "L", "L">>
REPRO == <<"R", "E", "P", "R", "O">>
UNKNOWN == <<"U", "N", "K", "N", "O", "W", "N">>
JobTypeMembers == {BUILD, INSTALL, REPRO, UNKNOWN}

SUCCESS == <<"S", "U", "C", "C", "E", "S", "S">>
FAILURE == <<"F", "A", "I", "L", "U", "R", "E">>
JobStatusMembers == {SUCCESS, FAILURE, UNKNOWN}

(* ------------------------------------------------------------------ *)
(* Job (job.py).  A job is [node |-> gitlab job node, branch |-> ref];   *)
(* a node is [name, createdAt, text, detailsPath].                       *)
(* ------------------------------------------------------------------ *)
Job(node, ref) == [node |-> node, branch |-> ref]

JobName(job) == job.node.name
JobPath(job) == job.node.detailsPath
creation_time(job) == job.node.createdAt

distribution(job) ==
    LET parts == split(JobName(job), ":")
    IN  IF Len(parts) >= 3 THEN parts[3] ELSE None

release(job) == removeprefix(split(JobName(job), ":")[1], S_r)

\* Job.status comparing the text as it is
StatusWithoutLower(job) ==
    LET job_status_str == job.node.text
    IN  IF job_status_str \in {S_failed, S_canceled, S_skipped} THEN FAILURE
        ELSE IF job_status_str \in {S_successText, S_passed} THEN SUCCESS
        ELSE UNKNOWN

status(job) ==
    LET job_status_str == lower(job.node.text)
    IN  IF job_status_str \in {S_failed, S_canceled, S_skipped} THEN FAILURE
        ELSE IF job_status_str \in {S_successText, S_passed} THEN SUCCESS
        ELSE UNKNOWN

type(job) ==
    LET parts == split(JobName(job), ":")
    IN  IF Len(parts) >= 2 /\ upper(parts[2]) \in JobTypeMembers
        THEN upper(parts[2])
        ELSE UNKNOWN

(* ------------------------------------------------------------------ *)
(* Python dicts: sequences of <<key, value>> in insertion order         *)
(* ------------------------------------------------------------------ *)
DictHas(d, k) == \E i \in 1..Len(d) : d[i][1] = k
DictGet(d, k) == d[CHOOSE i \in 1..Len(d) : d[i][1] = k][2]
DictPut(d, k, v) ==
    IF DictHas(d, k)
    THEN [i \in 1..Len(d) |-> IF d[i][1] = k THEN <<k, v>> ELSE d[i]]
    ELSE Append(d, <<k, v>>)
DictKeys(d) == [i \in 1..Len(d) |-> d[i][1]]
DictKeySet(d) == {d[i][1] : i \in 1..Len(d)}

(* ------------------------------------------------------------------ *)
(* Component (component.py).  A gitlab project node is a dict with the   *)
(* key "name" and one key per pipeline alias of the listing query        *)
(* ("current", "next", "main"), each alias holding [nodes |-> pipelines];*)
(* a pipeline is [ref |-> git branch, jobs |-> job nodes].               *)
(* ------------------------------------------------------------------ *)
ComponentName(node) == DictGet(node, S_name)
short_name(node) == removeprefix(ComponentName(node), S_qubes)

\* an Optional[List[Job]]
NoJobs == [isNone |-> TRUE, jobs |-> <<>>]
SomeJobs(jobs) == [isNone |-> FALSE, jobs |-> jobs]

\* line 55 raises: KeyError when the alias is no key of project_node, TypeError
\* when the value under it is the project's name (a string), which only the
\* embedded node of the listing holds, under 'name'; the answer of an on-demand
\* lookup holds the alias alone
BranchLookupRaises(project_node, branch_node_name, embedded) ==
    \/ ~DictHas(project_node, AlnumOnly(branch_node_name))
    \/ embedded /\ AlnumOnly(branch_node_name) = S_name

\* lines 55-57 of _get_branch_pipeline_jobs, once project_node is chosen
PipelineJobsOf(project_node, branch_node_name) ==
    LET pipeline_current_release == DictGet(project_node, AlnumOnly(branch_node_name)).nodes
    IN  IF pipeline_current_release # <<>>
        THEN SomeJobs([i \in 1..Len(pipeline_current_release[1].jobs) |->
                 Job(pipeline_current_release[1].jobs[i], pipeline_current_release[1].ref)])
        ELSE NoJobs

\* whether _get_branch_pipeline_jobs queries the remote for the branch
NeedsQuery(node, branch_node_name) == ~DictHas(node, branch_node_name)

\* _get_branch_pipeline_jobs: queried is the project node returned by
\* _query_branch_pipelines, used when the branch is no key of the node
get_branch_pipeline_jobs(node, branch_node_name, queried) ==
    LET embedded == DictHas(node, branch_node_name)
        project_node == IF embedded THEN node ELSE queried
    IN  IF BranchLookupRaises(project_node, branch_node_name, embedded)
        THEN [raised |-> TRUE, result |-> NoJobs]
        ELSE [raised |-> FALSE, result |-> PipelineJobsOf(project_node, branch_node_name)]

\* _get_pipeline_jobs without the fallback to 'main'
GetPipelineJobsNoFallback(node, branch_node_name, queried, queried_main) ==
    get_branch_pipeline_jobs(node, branch_node_name, queried)

\* _get_pipeline_jobs: queried_main is the project node _query_branch_pipelines
\* returns for 'main', used by the fallback when 'main' is no key of the node
get_pipeline_jobs(node, branch_node_name, queried, queried_main) ==
    LET branch_pipeline_jobs == get_branch_pipeline_jobs(node, branch_node_name, queried)
    IN  IF branch_pipeline_jobs.raised \/ ~branch_pipeline_jobs.result.isNone
        THEN branch_pipeline_jobs
        ELSE get_branch_pipeline_jobs(node, S_main, queried_main)

\* distros.setdefault(d, {}); distros[d][t] = job
PutJob(distros, job) ==
    LET d == distribution(job)
        old == IF DictHas(distros, d) THEN DictGet(distros, d) ELSE <<>>
    IN  DictPut(distros, d, DictPut(old, type(job), job))

\* the filter of _get_release_jobs without the comparison of releases
KeepsJobOfAnyRelease(job, release_number) ==
    type(job) \in {BUILD, INSTALL, REPRO}

KeepsJob(job, release_number) ==
    type(job) \in {BUILD, INSTALL, REPRO} /\ release(job) = release_number

RECURSIVE ReleaseJobsFrom(_, _, _, _)
ReleaseJobsFrom(jobs, i, release_number, distros) ==
    IF i > Len(jobs) THEN distros
    ELSE ReleaseJobsFrom(jobs, i + 1, release_number,
             IF KeepsJob(jobs[i], release_number) THEN PutJob(distros, jobs[i]) ELSE distros)

\* _get_release_jobs
get_release_jobs(pipeline_jobs, release_number) ==
    IF pipeline_jobs.isNone \/ pipeline_jobs.jobs = <<>>
    THEN <<>>
    ELSE ReleaseJobsFrom(pipeline_jobs.jobs, 1, release_number, <<>>)

S_branch == <<"b", "r", "a", "n", "c", "h">>
\* "builder_configuration and 'branch' in builder_configuration"
HasBranchOverride(builder_configuration) ==
    builder_configuration # <<>> /\ DictHas(builder_configuration, S_branch)

\* the branch get_current_release_pipeline / get_next_release_pipeline ask for
TrackBranch(track, builder_configuration) ==
    IF HasBranchOverride(builder_configuration)
    THEN DictGet(builder_configuration, S_branch)
    ELSE IF track = "current_release" THEN S_current ELSE S_next

(* ------------------------------------------------------------------ *)
(* ReportBuilder (report_builder.py): pure parts                        *)
(* ------------------------------------------------------------------ *)
MAXIMUM_PAGINATION == 20

S_current_release == <<"c", "u", "r", "r", "e", "n", "t", "_", "r", "e", "l", "e", "a", "s", "e">>
S_next_release == <<"n", "e", "x", "t", "_", "r", "e", "l", "e", "a", "s", "e">>
S_project_url == <<"p", "r", "o", "j", "e", "c", "t", "_", "u", "r", "l">>
S_last_job_creation_time == <<"l", "a", "s", "t", "_", "j", "o", "b", "_", "c", "r", "e", "a", "t", "i", "o", "n", "_", "t", "i", "m", "e">>
S_last_job_time_delta == <<"l", "a", "s", "t", "_", "j", "o", "b", "_", "t", "i", "m", "e", "_", "d", "e", "l", "t", "a">>
S_url == <<"u", "r", "l">>
S_badge == <<"b", "a", "d", "g", "e">>
S_text == <<"t", "e", "x", "t">>
S_nbsp == <<"&", "n", "b", "s", "p", ";">>
S_hours_ago == <<" ", "h", "o", "u", "r", "s", " ", "a", "g", "o">>
S_in == <<"i", "n", " ">>
S_hours == <<" ", "h", "o", "u", "r", "s">>
S_underscore == <<"_">>
S_index_md == <<"p", "u", "b", "l", "i", "c", "/", "i", "n", "d", "e", "x", ".", "m", "d">>
S_index_html == <<"p", "u", "b", "l", "i", "c", "/", "i", "n", "d", "e", "x", ".", "h", "t", "m", "l">>

\* decimal rendering of a natural number
RECURSIVE Dec(_)
Dec(n) == IF n < 10 THEN <<Digits[n + 1]>> ELSE Dec(n \div 10) \o <<Digits[(n % 10) + 1]>>

\* str.replace(c, rep) for a one-character c
RECURSIVE replace(_, _, _)
replace(s, c, rep) ==
    IF s = <<>> THEN <<>>
    ELSE (IF Head(s) = c THEN rep ELSE <<Head(s)>>) \o replace(Tail(s), c, rep)

\* Job creation times are whole hours since an epoch; format_datetime renders
\* the instant, format_timedelta(..., add_direction=True) the signed distance
format_datetime(t) == <<"T">> \o Dec(t)
format_timedelta(delta) ==
    IF delta < 0 THEN Dec(0 - delta) \o S_hours_ago ELSE S_in \o Dec(delta) \o S_hours

\* _get_builder_components_configuration, from the response of requests.get:
\* [raises, status_code, yaml], yaml being [kind |-> "error"] (YAMLError),
\* [kind |-> "nondict"] (a document that is no mapping) or
\* [kind |-> "dict", components |-> [present, entries]], an entry being
\* [isdict, items]
RECURSIVE MergeEntries(_, _, _)
MergeEntries(entries, i, components_configuration) ==
    IF i > Len(entries) THEN components_configuration
    ELSE MergeEntries(entries, i + 1,
            IF entries[i].isdict
            THEN LET RECURSIVE Merge(_, _)
                     Merge(j, acc) == IF j > Len(entries[i].items) THEN acc
                                      ELSE Merge(j + 1, DictPut(acc, entries[i].items[j][1],
                                                                entries[i].items[j][2]))
                 IN  Merge(1, components_configuration)
            ELSE components_configuration)

get_builder_components_configuration(response) ==
    IF response.raises THEN [raised |-> TRUE, value |-> <<>>]
    ELSE IF response.status_code # 200 THEN [raised |-> FALSE, value |-> <<>>]
    ELSE IF response.yaml.kind = "error" THEN [raised |-> FALSE, value |-> <<>>]
    ELSE IF response.yaml.kind = "nondict" THEN [raised |-> TRUE, value |-> <<>>]
    ELSE IF ~response.yaml.components.present \/ response.yaml.components.entries = <<>>
         THEN [raised |-> FALSE, value |-> <<>>]
    ELSE [raised |-> FALSE, value |-> MergeEntries(response.yaml.components.entries, 1, <<>>)]

\* builder_components_config.get(component.short_name)
ConfigGet(builder_components_config, name) ==
    IF DictHas(builder_components_config, name)
    THEN DictGet(builder_components_config, name) ELSE <<>>

\* lines 138-143 of _get_distros: merge one component's release_status
RECURSIVE MergeStatus(_, _, _, _)
MergeStatus(release_distros, release_status, i, component) ==
    IF i > Len(release_status) THEN release_distros
    ELSE LET distro_name == release_status[i][1]
             old == IF DictHas(release_distros, distro_name)
                    THEN DictGet(release_distros, distro_name) ELSE <<>>
         IN  MergeStatus(
                 DictPut(release_distros, distro_name,
                         DictPut(old, short_name(component),
                                 [jobs |-> release_status[i][2], component |-> component])),
                 release_status, i + 1, component)

Stages == <<BUILD, INSTALL, REPRO>>

\* lines 189-200: the release dict of one (distro, component, release)
RECURSIVE ReleaseEntry(_, _, _, _, _)
ReleaseEntry(entry, component_release_jobs, k, gitlab_url, current_time) ==
    IF k > Len(Stages) THEN entry
    ELSE LET stage == Stages[k]
         IN  IF DictHas(component_release_jobs, stage)
             THEN LET job == DictGet(component_release_jobs, stage)
                      e1 == DictPut(entry, S_last_job_creation_time,
                                    format_datetime(creation_time(job)))
                      e2 == DictPut(e1, S_last_job_time_delta,
                                    replace(format_timedelta(creation_time(job) - current_time),
                                            " ", S_nbsp))
                      e3 == DictPut(e2, lower(stage),
                                    << <<S_url, gitlab_url \o JobPath(job)>>,
                                       <<S_badge, lower(stage) \o S_underscore
                                                  \o lower(status(job)) \o S_svg>>,
                                       <<S_text, capitalize(type(job)) \o S_Status>> >>)
                  IN  ReleaseEntry(e3, component_release_jobs, k + 1, gitlab_url, current_time)
             ELSE ReleaseEntry(entry, component_release_jobs, k + 1, gitlab_url, current_time)

\* lines 181-200: one component of one distro of one release
FlattenComponent(qubes_status, rel, distro, component_name, component_details, gitlab_url, current_time) ==
    LET comps == DictGet(qubes_status, distro)
        old == IF DictHas(comps, component_name) THEN DictGet(comps, component_name) ELSE <<>>
        empty == << <<S_last_job_creation_time, <<>> >>, <<S_last_job_time_delta, <<>> >> >>
        e1 == DictPut(old, rel,
                      ReleaseEntry(empty, component_details.jobs, 1, gitlab_url, current_time))
        e2 == DictPut(e1, S_project_url,
                      gitlab_url \o S_QubesOS \o ComponentName(component_details.component))
    IN  DictPut(qubes_status, distro, DictPut(comps, component_name, e2))

RECURSIVE FlattenComponents(_, _, _, _, _, _, _)
FlattenComponents(qubes_status, rel, distro, components, j, gitlab_url, current_time) ==
    IF j > Len(components) THEN qubes_status
    ELSE FlattenComponents(
             FlattenComponent(qubes_status, rel, distro, components[j][1], components[j][2],
                              gitlab_url, current_time),
             rel, distro, components, j + 1, gitlab_url, current_time)

RECURSIVE FlattenRelease(_, _, _, _, _, _)
FlattenRelease(qubes_status, rel, release_distros, i, gitlab_url, current_time) ==
    IF i > Len(release_distros) THEN qubes_status
    ELSE LET distro == release_distros[i][1]
             q1 == IF DictHas(qubes_status, distro) THEN qubes_status
                   ELSE DictPut(qubes_status, distro, <<>>)
         IN  FlattenRelease(
                 FlattenComponents(q1, rel, distro, release_distros[i][2], 1,
                                   gitlab_url, current_time),
                 rel, release_distros, i + 1, gitlab_url, current_time)

\* generate_report flattening the current release only
FlattenCurrentOnly(all_distros, gitlab_url, current_time) ==
    FlattenRelease(<<>>, S_current_release, all_distros.current_release, 1,
                   gitlab_url, current_time)

\* lines 176-200 of generate_report
Flatten(all_distros, gitlab_url, current_time) ==
    FlattenRelease(
        FlattenRelease(<<>>, S_current_release, all_distros.current_release, 1,
                       gitlab_url, current_time),
        S_next_release, all_distros.next_release, 1, gitlab_url, current_time)

\* sorted(d.items()): insertion of each item before the first larger key
RECURSIVE InsertSorted(_, _)
InsertSorted(sorted, item) ==
    IF sorted = <<>> THEN <<item>>
    ELSE IF StrLess(item[1], Head(sorted)[1]) THEN <<item>> \o sorted
    ELSE <<Head(sorted)>> \o InsertSorted(Tail(sorted), item)

RECURSIVE SortedFrom(_, _, _)
SortedFrom(d, i, acc) ==
    IF i > Len(d) THEN acc ELSE SortedFrom(d, i + 1, InsertSorted(acc, d[i]))

SortedItems(d) == SortedFrom(d, 1, <<>>)

\* comparing None with a string raises TypeError
SortRaises(d) == Len(d) >= 2 /\ DictHas(d, None)

\* generate_report sorting the distributions only
SortDistributionsOnly(qubes_status) == SortedItems(qubes_status)

\* lines 203-205 of generate_report
SortStatus(qubes_status) ==
    LET outer == SortedItems(qubes_status)
    IN  [i \in 1..Len(outer) |-> <<outer[i][1], SortedItems(outer[i][2])>>]

(* ------------------------------------------------------------------ *)
(* The environment of one run: command line, token sources, the builder *)
(* configuration documents, the remote group listing and the pipelines   *)
(* of every git branch of every project                                  *)
(* ------------------------------------------------------------------ *)
VARIABLES
    world,             \* the environment, fixed for the run
    pc,                \* position of the run in g2g-report.py / generate_report
    gitlab_token,      \* ReportBuilder._gitlab_token
    builder_config,    \* the two builder_components_config_* of generate_report
    projects,          \* _get_components: projects, then the components
    pagination_offset, \* _get_components: pagination_offset (0 is None)
    page_i,            \* _get_components: the loop counter i
    comp_i,            \* _get_distros: index of the component being resolved
    track,             \* _get_distros: release track being resolved
    distros,           \* _get_distros: distros
    release_status,    \* _get_distros: the last release_status returned
    history,           \* every resolution made: what was asked and what it returned
    qubes_status,      \* generate_report: qubes_status
    files,             \* files written, name -> content
    exit_status,       \* "running", "0" or "1"
    error,             \* what ended the run: "", "RuntimeError", "SystemExit", "uncaught"
    error_at,          \* the position of the run when it was ended by an error
    events             \* remote calls and file writes, in order

vars == <<world, pc, gitlab_token, builder_config, projects, pagination_offset, page_i,
          comp_i, track, distros, release_status, history, qubes_status, files,
          exit_status, error, error_at, events>>

\* the pipelines of git branch `branch` of project `name`
Git(w, name, branch) ==
    IF name \in DOMAIN w.git /\ branch \in DOMAIN w.git[name]
    THEN w.git[name][branch] ELSE <<>>

\* a project node of the listing: templates are rendered with the aliases
\* current -> release<current>, next -> release<next>, main -> main
ProjectNode(w, name) ==
    << <<S_name, name>>,
       <<S_current, [nodes |-> Git(w, name, S_release \o w.current_release)]>>,
       <<S_next, [nodes |-> Git(w, name, S_release \o w.next_release)]>>,
       <<S_main, [nodes |-> Git(w, name, S_main)]>> >>

\* the page the remote serves after cursor `offset` (page numbers are cursors)
ListingPage(w, offset) ==
    [nodes |-> [i \in 1..Len(w.pages[offset + 1]) |-> ProjectNode(w, w.pages[offset + 1][i])],
     hasNextPage |-> offset + 1 < Len(w.pages),
     endCursor |-> offset + 1]

\* the project node an on-demand lookup returns: one alias, the branch's pipelines
BranchProject(w, name, branch) ==
    << <<AlnumOnly(branch), [nodes |-> Git(w, name, branch)]>> >>

\* responses of the GraphQL endpoint: the HTTP status is a success or not, the
\* body is no JSON, carries data, carries errors, or both
Responses == [ok : BOOLEAN, body : {"data", "errors_data", "errors", "notjson"}]
ResponseFailed(r) == ~r.ok \/ r.body # "data"

\* r.json() raises on a body that is no JSON
JsonRaises(r) == r.body = "notjson"
HasErrors(r) == r.body \in {"errors", "errors_data"}
HasData(r) == r.body \in {"data", "errors_data"}

\* _query_pipelines: "raise" (RuntimeError of _error_and_exit), "crash"
\* (exception of r.json()) or "data"
query_pipelines(r) ==
    IF ~r.ok THEN "raise"
    ELSE IF JsonRaises(r) THEN "crash"
    ELSE IF HasErrors(r) THEN "raise"
    ELSE "data"

\* _query_branch_pipelines: r.json()['data']['project'] raises or returns
query_branch_pipelines(r) ==
    IF JsonRaises(r) \/ ~HasData(r) THEN "crash" ELSE "data"

(* ------------------------------------------------------------------ *)
(* The environments explored                                            *)
(* ------------------------------------------------------------------ *)
S_gitlab_com == <<"h", "t", "t", "p", "s", ":", "/", "/", "g", "i", "t", "l", "a", "b", ".", "c", "o", "m">>
S_42 == <<"4", ".", "2">>
S_43 == <<"4", ".", "3">>
S_dev == <<"d", "e", "v">>
S_na_me == <<"n", "a", "-", "m", "e">>
S_other == <<"o", "t", "h", "e", "r">>
S_release42 == S_release \o S_42
S_release43 == S_release \o S_43
P_a == S_qubes \o <<"a">>
P_b == S_qubes \o <<"b">>
P_bare == <<"b">>
D_1 == <<"d", "1">>
D_2 == <<"d", "2">>
W_build == <<"b", "u", "i", "l", "d">>
W_Build == <<"B", "u", "i", "l", "d">>
W_install == <<"i", "n", "s", "t", "a", "l", "l">>
W_repro == <<"r", "e", "p", "r", "o">>
W_test == <<"t", "e", "s", "t">>
W_foo == <<"f", "o", "o">>

JobNode(name, text, createdAt, k) ==
    [name |-> name, text |-> text, createdAt |-> createdAt, detailsPath |-> <<"/">> \o Dec(k)]
Pipeline(ref, jobs) == [ref |-> ref, jobs |-> jobs]
Name3(a, b, c) == a \o <<":">> \o b \o <<":">> \o c

N_build42 == Name3(S_r \o S_42, W_build, D_1)
N_install42 == Name3(S_r \o S_42, W_install, D_1)
N_repro42 == Name3(S_r \o S_42, W_repro, D_1)
N_build43 == Name3(S_r \o S_43, W_build, D_1)

JobNames ==
    { N_build42,
      Name3(S_r \o S_42, W_Build, D_1),
      N_build43,
      Name3(S_42, W_install, D_2),
      Name3(S_r \o S_42, W_test, D_1),
      W_foo,
      S_r \o S_42 \o <<":">> \o W_build,
      N_build42 \o <<":">> \o <<"x">> }

StatusTexts ==
    { S_failed, S_canceled, S_skipped, S_successText, S_passed,
      <<"c", "r", "e", "a", "t", "e", "d">>,
      <<"w", "a", "i", "t", "i", "n", "g", "_", "f", "o", "r", "_", "r", "e", "s", "o", "u", "r", "c", "e">>,
      <<"p", "r", "e", "p", "a", "r", "i", "n", "g">>,
      <<"p", "e", "n", "d", "i", "n", "g">>,
      <<"r", "u", "n", "n", "i", "n", "g">>,
      <<"m", "a", "n", "u", "a", "l">>,
      <<"s", "c", "h", "e", "d", "u", "l", "e", "d">>,
      <<"F", "A", "I", "L", "E", "D">>,
      <<"P", "a", "s", "s", "e", "d">>,
      <<"S", "k", "i", "p", "p", "e", "d">>,
      <<"S", "U", "C", "C", "E", "S", "S">>,
      <<"C", "a", "n", "c", "e", "l", "e", "d">>,
      <<"b", "o", "g", "u", "s">>,
      <<>> }

SeqsUpTo(S, n) == UNION {[1..k -> S] : k \in 1..n}

OkBuilder(entries) ==
    [raises |-> FALSE, status_code |-> 200,
     yaml |-> [kind |-> "dict", components |-> [present |-> TRUE, entries |-> entries]]]
OverrideEntry(short, branch) ==
    [isdict |-> TRUE, items |-> << <<short, << <<S_branch, branch>> >> >> >>]

\* entry: the program run, "main" (g2g-report.py) or "config_current"
\* (ReportBuilder.generate_report of the package, built with gitlab_token)
BaseWorld ==
    [entry |-> "config_current", gitlab_token |-> "token",
     env_token |-> "token", file_token |-> "None", gitlab_url |-> S_gitlab_com,
     current_release |-> S_42, next_release |-> S_43,
     builder |-> [current |-> OkBuilder(<<>>), next |-> OkBuilder(<<>>)],
     pages |-> << <<P_a>> >>,
     git |-> (P_a :> (S_main :> <<>>))]

\* one project whose current-release and main branches ran the same job list
JobsOfNames(names) == [i \in 1..Len(names) |-> JobNode(names[i], S_successText, 1, i)]
JobWorlds ==
    { [BaseWorld EXCEPT !.git = (P_a :> (S_release42 :> <<Pipeline(S_release42, JobsOfNames(names))>>
                                         @@ S_main :> <<Pipeline(S_main, JobsOfNames(names))>>))]
      : names \in SeqsUpTo(JobNames, MaxJobs) }

\* one job, every status text
StatusWorlds ==
    { [BaseWorld EXCEPT !.git = (P_a :> (S_release42 :>
            <<Pipeline(S_release42, <<JobNode(N_build42, text, 1, 1)>>)>>))]
      : text \in StatusTexts }

\* build, install and repro jobs of one distribution, created at any times
\* (time 0: the stage has no job)
TimedJobs(tb, ti, tr) ==
    (IF tb > 0 THEN <<JobNode(N_build42, S_successText, tb, 1)>> ELSE <<>>)
    \o (IF ti > 0 THEN <<JobNode(N_install42, S_failed, ti, 2)>> ELSE <<>>)
    \o (IF tr > 0 THEN <<JobNode(N_repro42, S_passed, tr, 3)>> ELSE <<>>)
TimeWorlds ==
    { [BaseWorld EXCEPT !.git = (P_a :> (S_release42 :>
            <<Pipeline(S_release42, TimedJobs(tb, ti, tr))>>))]
      : tb \in 0..MaxTime, ti \in 0..MaxTime, tr \in 0..MaxTime }

\* one project, each git branch without pipelines or with MaxPipelines of them
\* (most recent first), each track with or without a branch override
StdJobs(p) == <<JobNode(N_build42, S_successText, 1, 10 * p + 1),
                JobNode(N_build43, S_successText, 1, 10 * p + 2)>>
Pipelines(ref, has) == IF has THEN [p \in 1..MaxPipelines |-> Pipeline(ref, StdJobs(p))] ELSE <<>>
OverrideBranches == {S_main, S_current, S_dev, S_name, S_na_me, S_release42}
OverrideOptions == {<<>>} \cup {<<OverrideEntry(<<"a">>, b)>> : b \in OverrideBranches}
BranchWorlds ==
    { [BaseWorld EXCEPT
          !.builder = [current |-> OkBuilder(oc), next |-> OkBuilder(on)],
          !.git = (P_a :> (S_release42 :> Pipelines(S_release42, h42)
                           @@ S_release43 :> Pipelines(S_release43, h43)
                           @@ S_main :> Pipelines(S_main, hm)
                           @@ S_current :> Pipelines(S_current, hc)
                           @@ S_dev :> Pipelines(S_dev, hd)
                           @@ S_na_me :> Pipelines(S_na_me, hd)))]
      : oc \in OverrideOptions, on \in OverrideOptions,
        h42 \in BOOLEAN, h43 \in BOOLEAN, hm \in BOOLEAN, hc \in BOOLEAN, hd \in BOOLEAN }

\* several projects, listed in any order over one or two pages
Profiles ==
    { (S_main :> <<>>),
      (S_release42 :> <<Pipeline(S_release42,
            <<JobNode(Name3(S_r \o S_42, W_build, D_2), S_successText, 1, 1),
              JobNode(N_install42, S_successText, 1, 2)>>)>>),
      (S_release42 :> <<Pipeline(S_release42,
            <<JobNode(N_build42, S_failed, 2, 1), JobNode(N_install42, S_passed, 1, 2)>>)>>
       @@ S_release43 :> <<Pipeline(S_release43,
            <<JobNode(N_build43, S_passed, 1, 3)>>)>>),
      (S_main :> <<Pipeline(S_main,
            <<JobNode(Name3(S_r \o S_43, W_repro, D_2), S_successText, 1, 1)>>)>>),
      (S_release42 :> <<Pipeline(S_release42,
            <<JobNode(S_r \o S_42 \o <<":">> \o W_build, S_successText, 1, 1),
              JobNode(N_build42, S_successText, 1, 2)>>)>>) }
ProjectNames == {P_b, P_a, P_bare}
IsInjective(f) == \A i, j \in DOMAIN f : f[i] = f[j] => i = j
PageSplits(names) ==
    {<<names>>} \cup
    { <<SubSeq(names, 1, k), SubSeq(names, k + 1, Len(names))>> : k \in 1..Len(names) }
TableWorlds ==
    UNION { UNION { { [BaseWorld EXCEPT
                          !.pages = pages,
                          !.git = [n \in {names[i] : i \in 1..Len(names)} |->
                                      profs[CHOOSE i \in 1..Len(names) : names[i] = n]]]
                      : pages \in PageSplits(names) }
                    : profs \in [1..Len(names) -> Profiles] }
            : names \in {s \in SeqsUpTo(ProjectNames, MaxComponents) : IsInjective(s)} }

\* every outcome of fetching the builder configuration of a release
BuilderResponses ==
    { [raises |-> TRUE, status_code |-> 200, yaml |-> [kind |-> "error"]],
      [raises |-> FALSE, status_code |-> 404, yaml |-> [kind |-> "error"]],
      [raises |-> FALSE, status_code |-> 200, yaml |-> [kind |-> "error"]],
      [raises |-> FALSE, status_code |-> 200, yaml |-> [kind |-> "nondict"]],
      [raises |-> FALSE, status_code |-> 200,
       yaml |-> [kind |-> "dict", components |-> [present |-> FALSE, entries |-> <<>>]]],
      OkBuilder(<<>>),
      OkBuilder(<<[isdict |-> FALSE, items |-> <<>>]>>),
      OkBuilder(<<[isdict |-> TRUE, items |-> << <<<<"a">>, <<>> >> >>]>>),
      OkBuilder(<<[isdict |-> TRUE, items |-> << <<<<"a">>, << <<S_other, S_main>> >> >> >>]>>),
      OkBuilder(<<[isdict |-> FALSE, items |-> <<>>], OverrideEntry(<<"a">>, S_main),
                  OverrideEntry(<<"b">>, S_dev)>>) }
ConfigWorlds ==
    { [BaseWorld EXCEPT !.builder = [current |-> bc, next |-> bn],
                        !.git = (P_a :> (S_release42 :> Pipelines(S_release42, TRUE)
                                         @@ S_main :> Pipelines(S_main, TRUE)))]
      : bc \in BuilderResponses, bn \in BuilderResponses }

\* g2g-report.py run with the token in the environment, in the token file, in
\* both or in neither; the package's ReportBuilder built without a token
TokenWorlds ==
    { [BaseWorld EXCEPT !.entry = "main", !.gitlab_token = "None",
                        !.env_token = e, !.file_token = f]
      : e \in {"None", "token"}, f \in {"None", "filetoken"} }
    \cup { [BaseWorld EXCEPT !.gitlab_token = "None",
                             !.git = (P_a :> (S_release42 :> Pipelines(S_release42, TRUE)))] }

\* a group listed over any number of pages, one project without pipelines a page
PagedProject(i) == S_qubes \o <<"p">> \o Dec(i)
PageWorlds ==
    { [BaseWorld EXCEPT !.pages = [i \in 1..n |-> <<PagedProject(i)>>]] : n \in 1..MaxPages }

Worlds == JobWorlds \cup StatusWorlds \cup TimeWorlds \cup BranchWorlds \cup TableWorlds
          \cup ConfigWorlds \cup TokenWorlds \cup PageWorlds

(* ------------------------------------------------------------------ *)
(* The run                                                              *)
(* ------------------------------------------------------------------ *)
Init ==
    /\ world \in Worlds
    /\ pc = world.entry
    /\ gitlab_token = world.gitlab_token
    /\ builder_config = [current |-> <<>>, next |-> <<>>]
    /\ projects = <<>>
    /\ pagination_offset = 0
    /\ page_i = 0
    /\ comp_i = 1
    /\ track = "current_release"
    /\ distros = [current_release |-> <<>>, next_release |-> <<>>]
    /\ release_status = <<>>
    /\ history = <<>>
    /\ qubes_status = <<>>
    /\ files = <<>>
    /\ exit_status = "running"
    /\ error = ""
    /\ error_at = ""
    /\ events = <<>>

\* the process ends with status 1: exit(1) of __main__, the RuntimeError it
\* catches, or an exception it does not catch
Abort(why, evs) ==
    /\ pc' = "exited"
    /\ exit_status' = "1"
    /\ error' = why
    /\ error_at' = pc
    /\ events' = evs

\* __main__ handing whatever token it found, or none, to the ReportBuilder of
\* the package
MainAnonymous ==
    /\ pc = "main"
    /\ gitlab_token' = IF world.env_token # "None" THEN world.env_token ELSE world.file_token
    /\ pc' = "config_current"
    /\ UNCHANGED <<world, builder_config, projects, pagination_offset, page_i, comp_i, track,
                   distros, release_status, history, qubes_status, files, exit_status,
                   error, error_at, events>>

\* g2g-report.py, __main__: the token from the environment, else from the file;
\* without a token exit(1); with one, the ReportBuilder of g2g-report.py itself
\* (lines 32-185) is built and its generate_report raises NameError at line 105
\* (get_pipelines_data is no global name), which __main__ does not catch
Main ==
    /\ pc = "main"
    /\ LET token == IF world.env_token # "None" THEN world.env_token
                    ELSE world.file_token
       IN  /\ gitlab_token' = token
           /\ IF token = "None"
              THEN Abort("SystemExit", events)
              ELSE Abort("uncaught", events)
    /\ UNCHANGED <<world, builder_config, projects, pagination_offset, page_i, comp_i, track,
                   distros, release_status, history, qubes_status, files>>

\* generate_report, line 168
GetBuilderConfigCurrent ==
    /\ pc = "config_current"
    /\ LET got == get_builder_components_configuration(world.builder.current)
           evs == Append(events, [op |-> "builder_config", arg |-> world.current_release,
                                  failed |-> FALSE, authorization |-> FALSE])
       IN  IF got.raised
           THEN Abort("uncaught", evs) /\ UNCHANGED builder_config
           ELSE /\ builder_config' = [builder_config EXCEPT !.current = got.value]
                /\ pc' = "config_next"
                /\ events' = evs
                /\ UNCHANGED <<exit_status, error, error_at>>
    /\ UNCHANGED <<world, gitlab_token, projects, pagination_offset, page_i, comp_i, track,
                   distros, release_status, history, qubes_status, files>>

\* generate_report, line 169
GetBuilderConfigNext ==
    /\ pc = "config_next"
    /\ LET got == get_builder_components_configuration(world.builder.next)
           evs == Append(events, [op |-> "builder_config", arg |-> world.next_release,
                                  failed |-> FALSE, authorization |-> FALSE])
       IN  IF got.raised
           THEN Abort("uncaught", evs) /\ UNCHANGED builder_config
           ELSE /\ builder_config' = [builder_config EXCEPT !.next = got.value]
                /\ pc' = "listing"
                /\ events' = evs
                /\ UNCHANGED <<exit_status, error, error_at>>
    /\ UNCHANGED <<world, gitlab_token, projects, pagination_offset, page_i, comp_i, track,
                   distros, release_status, history, qubes_status, files>>

\* the cursor of the previous request sent again
CursorNotAdvanced(offset, data) == offset

\* _get_components, line 114: the cursor of the next request
NextPaginationOffset(offset, data) == data.endCursor

\* _get_components: one iteration of the loop, with the response r of the remote
GetComponentsPage(r) ==
    /\ pc = "listing"
    /\ LET evs == Append(events, [op |-> "query_pipelines", arg |-> Dec(pagination_offset),
                                  failed |-> ResponseFailed(r),
                                  authorization |-> gitlab_token # "None"])
           outcome == query_pipelines(r)
           data == ListingPage(world, pagination_offset)
       IN  IF outcome = "raise"
           THEN Abort("RuntimeError", evs)
                /\ UNCHANGED <<projects, pagination_offset, page_i>>
           ELSE IF outcome = "crash"
           THEN Abort("uncaught", evs)
                /\ UNCHANGED <<projects, pagination_offset, page_i>>
           ELSE /\ projects' = projects \o data.nodes
                /\ events' = evs
                /\ IF ~data.hasNextPage
                   THEN /\ pc' = IF projects' = <<>> THEN "flatten" ELSE "resolve"
                        /\ UNCHANGED <<pagination_offset, page_i>>
                   ELSE /\ pagination_offset' = NextPaginationOffset(pagination_offset, data)
                        /\ page_i' = page_i + 1
                        /\ pc' = IF page_i + 1 < MAXIMUM_PAGINATION THEN "listing"
                                 ELSE IF projects' = <<>> THEN "flatten" ELSE "resolve"
                /\ UNCHANGED <<exit_status, error, error_at>>
    /\ UNCHANGED <<world, gitlab_token, builder_config, comp_i, track, distros,
                   release_status, history, qubes_status, files>>

\* _get_distros: one release track of one component; r is the response of the
\* remote, read only when the branch is looked up on demand
ResolveTrack(r) ==
    /\ pc = "resolve"
    /\ LET component == projects[comp_i]
           config == IF track = "current_release" THEN builder_config.current
                     ELSE builder_config.next
           builder_configuration == ConfigGet(config, short_name(component))
           release_number == IF track = "current_release" THEN world.current_release
                             ELSE world.next_release
           branch == TrackBranch(track, builder_configuration)
           asks == NeedsQuery(component, branch)
           evs == IF asks
                  THEN Append(events, [op |-> "query_branch", arg |-> branch,
                                       failed |-> ResponseFailed(r),
                                       authorization |-> FALSE])
                  ELSE events
           queried == BranchProject(world, ComponentName(component), branch)
           \* every node of the listing holds 'main' (_build_gitlab_query, line 65):
           \* the fallback reads it and never looks 'main' up on demand
           queried_main == BranchProject(world, ComponentName(component), S_main)
           pipeline == get_pipeline_jobs(component, branch, queried, queried_main)
       IN  /\ asks \/ r = [ok |-> TRUE, body |-> "data"]
           /\ IF (asks /\ query_branch_pipelines(r) = "crash") \/ pipeline.raised
              THEN /\ Abort("uncaught", evs)
                   /\ UNCHANGED <<comp_i, track, distros, release_status, history>>
              ELSE /\ release_status' = get_release_jobs(pipeline.result, release_number)
                   /\ history' = Append(history,
                          [component |-> component, track |-> track, branch |-> branch,
                           override |-> HasBranchOverride(builder_configuration),
                           queried |-> asks, release_number |-> release_number,
                           pipeline_jobs |-> pipeline.result,
                           release_status |-> release_status'])
                   /\ distros' =
                        IF track = "current_release"
                        THEN [distros EXCEPT !.current_release =
                                 MergeStatus(@, release_status', 1, component)]
                        ELSE [distros EXCEPT !.next_release =
                                 MergeStatus(@, release_status', 1, component)]
                   /\ events' = evs
                   /\ IF track = "current_release"
                      THEN track' = "next_release" /\ UNCHANGED <<comp_i, pc>>
                      ELSE /\ track' = "current_release"
                           /\ comp_i' = comp_i + 1
                           /\ pc' = IF comp_i = Len(projects) THEN "flatten" ELSE "resolve"
                   /\ UNCHANGED <<exit_status, error, error_at>>
    /\ UNCHANGED <<world, gitlab_token, builder_config, projects, pagination_offset, page_i,
                   qubes_status, files>>

\* generate_report, lines 174-205: the table is built, then sorted
current_time == MaxTime + 1
FlattenAndSort ==
    /\ pc = "flatten"
    /\ LET flat == Flatten(distros, world.gitlab_url, current_time)
       IN  IF SortRaises(flat)
           THEN /\ qubes_status' = flat
                /\ Abort("uncaught", events)
           ELSE /\ qubes_status' = SortStatus(flat)
                /\ pc' = "write_md"
                /\ UNCHANGED <<exit_status, error, error_at, events>>
    /\ UNCHANGED <<world, gitlab_token, builder_config, projects, pagination_offset, page_i,
                   comp_i, track, distros, release_status, history, files>>

Rendered == [current_release |-> world.current_release, next_release |-> world.next_release,
             qubes_status |-> qubes_status]

\* index.md written as soon as components are listed, while they are resolved
WriteMarkdownWhileResolving ==
    /\ pc = "resolve"
    /\ ~DictHas(files, S_index_md)
    /\ files' = DictPut(files, S_index_md, Rendered)
    /\ events' = Append(events, [op |-> "write", arg |-> S_index_md, failed |-> FALSE,
                                authorization |-> FALSE])
    /\ UNCHANGED <<world, pc, gitlab_token, builder_config, projects, pagination_offset,
                   page_i, comp_i, track, distros, release_status, history, qubes_status,
                   exit_status, error, error_at>>

\* generate_report, lines 207-211
WriteMarkdown ==
    /\ pc = "write_md"
    /\ files' = DictPut(files, S_index_md, Rendered)
    /\ events' = Append(events, [op |-> "write", arg |-> S_index_md, failed |-> FALSE,
                                authorization |-> FALSE])
    /\ pc' = "write_html"
    /\ UNCHANGED <<world, gitlab_token, builder_config, projects, pagination_offset, page_i,
                   comp_i, track, distros, release_status, history, qubes_status,
                   exit_status, error, error_at>>

\* generate_report, lines 213-216, and the normal end of the process
WriteHtml ==
    /\ pc = "write_html"
    /\ files' = DictPut(files, S_index_html, Rendered)
    /\ events' = Append(events, [op |-> "write", arg |-> S_index_html, failed |-> FALSE,
                                authorization |-> FALSE])
    /\ pc' = "exited"
    /\ exit_status' = "0"
    /\ UNCHANGED <<world, gitlab_token, builder_config, projects, pagination_offset, page_i,
                   comp_i, track, distros, release_status, history, qubes_status, error,
                   error_at>>

Next ==
    \/ Main
    \/ GetBuilderConfigCurrent
    \/ GetBuilderConfigNext
    \/ \E r \in Responses : GetComponentsPage(r)
    \/ \E r \in Responses : ResolveTrack(r)
    \/ FlattenAndSort
    \/ WriteMarkdown
    \/ WriteHtml

Spec == Init /\ [][Next]_vars

(* ------------------------------------------------------------------ *)
(* Properties                                                           *)
(* ------------------------------------------------------------------ *)
\* the table is built and sorted, and is or was handed to the renderer
TableComplete == pc \in {"write_md", "write_html"} \/ (pc = "exited" /\ exit_status = "0")

\* the jobs of a mapping distribution -> stage -> job
MappingJobs(m) == UNION { {m[i][2][k][2] : k \in 1..Len(m[i][2])} : i \in 1..Len(m) }
\* the jobs kept in distros for one release
DistrosJobs(rd) ==
    UNION { UNION { {rd[i][2][j][2].jobs[k][2] : k \in 1..Len(rd[i][2][j][2].jobs)}
                    : j \in 1..Len(rd[i][2]) } : i \in 1..Len(rd) }
Histories == {history[i] : i \in 1..Len(history)}
Segments(job) == Len(split(JobName(job), ":"))
\* the jobs of a pipeline, as Job objects
PipelineAsJobs(p) == [i \in 1..Len(p.jobs) |-> [node |-> p.jobs[i], branch |-> p.ref]]
SetMax(S) == CHOOSE x \in S : \A y \in S : y <= x

\* C1: a job whose name does not split on ':' into exactly 3 segments is never
\* classified BUILD, INSTALL or REPRO and is in no mapping returned by the
\* resolvers, hence in no entry of the aggregated table
C1_MalformedNamesExcluded ==
    /\ \A h \in Histories :
          /\ \A i \in 1..Len(h.pipeline_jobs.jobs) :
                Segments(h.pipeline_jobs.jobs[i]) # 3
                    => type(h.pipeline_jobs.jobs[i]) \notin {BUILD, INSTALL, REPRO}
          /\ \A job \in MappingJobs(h.release_status) : Segments(job) = 3
    /\ \A job \in DistrosJobs(distros.current_release) \cup DistrosJobs(distros.next_release) :
          Segments(job) = 3

\* C2: without a branch override, the current track takes jobs only from the
\* most recent pipeline of the current-release branch, never from 'main', and
\* resolves to nothing when that branch has no pipeline
C2_CurrentTrackNeverFromMain ==
    \A h \in Histories :
        (h.track = "current_release" /\ ~h.override) =>
            LET n == Git(world, ComponentName(h.component), S_release \o world.current_release)
            IN  /\ \A job \in MappingJobs(h.release_status) : job.branch # S_main
                /\ n = <<>> => h.release_status = <<>>
                /\ n # <<>> => h.pipeline_jobs = SomeJobs(PipelineAsJobs(n[1]))

\* C3: without a branch override, the next track uses the most recent pipeline
\* of the next-release branch when it has one, else the most recent pipeline of
\* 'main', else resolves to the empty mapping; it raises no error
C3_NextTrackFallsBackToMain ==
    /\ \A h \in Histories :
          (h.track = "next_release" /\ ~h.override) =>
              LET nn == Git(world, ComponentName(h.component), S_release \o world.next_release)
                  nm == Git(world, ComponentName(h.component), S_main)
              IN  /\ nn # <<>> => h.pipeline_jobs = SomeJobs(PipelineAsJobs(nn[1]))
                  /\ (nn = <<>> /\ nm # <<>>) => h.pipeline_jobs = SomeJobs(PipelineAsJobs(nm[1]))
                  /\ (nn = <<>> /\ nm = <<>>) => (h.pipeline_jobs.isNone /\ h.release_status = <<>>)
    /\ ~(/\ error_at = "resolve"
         /\ track = "next_release"
         /\ ~HasBranchOverride(ConfigGet(builder_config.next, short_name(projects[comp_i]))))

\* C3 witness: the next-release branch has no pipeline, 'main' has, and jobs of
\* 'main' were resolved for the next track
C3_Witness ==
    \E h \in Histories :
        /\ h.track = "next_release" /\ ~h.override
        /\ Git(world, ComponentName(h.component), S_release \o world.next_release) = <<>>
        /\ Len(Git(world, ComponentName(h.component), S_main)) >= 2
        /\ h.release_status # <<>>
        /\ \A job \in MappingJobs(h.release_status) : job.branch = S_main

\* C4: with a branch override B whose git branch has a pipeline, the resolver
\* returns the jobs of the most recent pipeline of the git branch named B
C4_OverrideUsesNamedBranch ==
    \A h \in Histories :
        (h.override /\ Git(world, ComponentName(h.component), h.branch) # <<>>) =>
            h.pipeline_jobs =
                SomeJobs(PipelineAsJobs(Git(world, ComponentName(h.component), h.branch)[1]))

\* C5: the timestamp summary of every (distribution, component, release) of the
\* table is that of the maximum creation time among its build, install and
\* repro jobs
C5_TimestampIsMaximum ==
    TableComplete =>
        \A rel \in {S_current_release, S_next_release} :
            LET rd == IF rel = S_current_release THEN distros.current_release
                      ELSE distros.next_release
            IN  \A i \in 1..Len(rd) : \A j \in 1..Len(rd[i][2]) :
                    LET jobs == rd[i][2][j][2].jobs
                        newest == SetMax({creation_time(jobs[k][2]) : k \in 1..Len(jobs)})
                        entry == DictGet(DictGet(DictGet(qubes_status, rd[i][1]), rd[i][2][j][1]), rel)
                    IN  /\ DictGet(entry, S_last_job_creation_time) = format_datetime(newest)
                        /\ DictGet(entry, S_last_job_time_delta) =
                               replace(format_timedelta(newest - current_time), " ", S_nbsp)

\* C6: the resolved mapping holds a record at (distribution d, stage s) exactly
\* when some job of the selected pipeline has stage s in {BUILD, INSTALL,
\* REPRO}, the requested release and distribution d, and the record is the
\* last such job of the list
C6_LastMatchingJobWins ==
    \A h \in Histories :
        LET jobs == h.pipeline_jobs.jobs
            m == h.release_status
            ds == DictKeySet(m) \cup {distribution(jobs[i]) : i \in 1..Len(jobs)}
        IN  /\ \A i \in 1..Len(m) : DictKeySet(m[i][2]) \subseteq {BUILD, INSTALL, REPRO}
            /\ \A d \in ds : \A s \in {BUILD, INSTALL, REPRO} :
                  LET matching == {i \in 1..Len(jobs) :
                                      /\ type(jobs[i]) = s
                                      /\ release(jobs[i]) = h.release_number
                                      /\ distribution(jobs[i]) = d}
                      present == DictHas(m, d) /\ DictHas(DictGet(m, d), s)
                  IN  /\ present <=> matching # {}
                      /\ present => DictGet(DictGet(m, d), s) = jobs[SetMax(matching)]

\* C6 witness: two jobs of the list match the same (distribution, stage) and a
\* job of another release is in the list; the later of the two is kept
C6_Witness ==
    \E h \in Histories :
        \E i, j, k \in 1..Len(h.pipeline_jobs.jobs) :
            LET jobs == h.pipeline_jobs.jobs
            IN  /\ i < j
                /\ type(jobs[i]) = BUILD /\ type(jobs[j]) = BUILD
                /\ distribution(jobs[i]) = distribution(jobs[j])
                /\ release(jobs[i]) = h.release_number /\ release(jobs[j]) = h.release_number
                /\ release(jobs[k]) # h.release_number /\ type(jobs[k]) = BUILD
                /\ DictGet(DictGet(h.release_status, distribution(jobs[j])), BUILD) = jobs[j]

\* C7: Job.status maps failed/canceled/skipped to FAILURE and success/passed to
\* SUCCESS, whatever the case of the letters, and every other text to UNKNOWN
FailureTexts ==
    { S_failed, S_canceled, S_skipped, <<"F", "A", "I", "L", "E", "D">>,
      <<"S", "k", "i", "p", "p", "e", "d">>, <<"C", "a", "n", "c", "e", "l", "e", "d">> }
SuccessTexts ==
    { S_successText, S_passed, <<"P", "a", "s", "s", "e", "d">>,
      <<"S", "U", "C", "C", "E", "S", "S">> }
StatusWord(text) ==
    IF text \in FailureTexts THEN <<"f", "a", "i", "l", "u", "r", "e">>
    ELSE IF text \in SuccessTexts THEN <<"s", "u", "c", "c", "e", "s", "s">>
    ELSE <<"u", "n", "k", "n", "o", "w", "n">>
StageWord(s) ==
    IF s = BUILD THEN <<"b", "u", "i", "l", "d">>
    ELSE IF s = INSTALL THEN <<"i", "n", "s", "t", "a", "l", "l">>
    ELSE <<"r", "e", "p", "r", "o">>
\* the badges of the table, each with the job it was made from
Badges ==
    UNION { UNION { UNION { { [badge |-> DictGet(DictGet(DictGet(DictGet(DictGet(qubes_status,
                                                 rd[1][i][1]), rd[1][i][2][j][1]), rd[2]),
                                                 StageWord(rd[1][i][2][j][2].jobs[k][1])), S_badge),
                               stage |-> rd[1][i][2][j][2].jobs[k][1],
                               job |-> rd[1][i][2][j][2].jobs[k][2]]
                              : k \in 1..Len(rd[1][i][2][j][2].jobs) }
                            : j \in 1..Len(rd[1][i][2]) }
                    : i \in 1..Len(rd[1]) }
            : rd \in { <<distros.current_release, S_current_release>>,
                       <<distros.next_release, S_next_release>> } }
C7_StatusIsTotalAndCaseInsensitive ==
    /\ \A job \in DistrosJobs(distros.current_release) \cup DistrosJobs(distros.next_release) :
          /\ status(job) \in JobStatusMembers
          /\ job.node.text \in FailureTexts <=> status(job) = FAILURE
          /\ job.node.text \in SuccessTexts <=> status(job) = SUCCESS
    /\ TableComplete =>
          \A b \in Badges :
              b.badge = StageWord(b.stage) \o <<"_">> \o StatusWord(b.job.node.text) \o S_svg

\* C7 witness: jobs whose texts are 'FAILED', 'Passed', 'running' and a text
\* that is no GitLab status each reach the table
C7_Witness ==
    /\ TableComplete
    /\ \E b \in Badges :
          /\ b.job.node.text = <<"F", "A", "I", "L", "E", "D">>
          /\ b.badge = <<"b", "u", "i", "l", "d", "_", "f", "a", "i", "l", "u", "r", "e",
                         ".", "s", "v", "g">>

\* C8: a component is listed under a distribution exactly when one of its
\* resolutions returned jobs of that distribution; a release key is present
\* only if jobs were resolved for that track, and then has a timestamp; a stage
\* key only if a job of that stage was resolved; the distributions are those of
\* all resolved jobs; no empty release or stage structure is emitted
ReleaseKeys == {S_current_release, S_next_release}
TrackKey(t) == IF t = "current_release" THEN S_current_release ELSE S_next_release
C8_TableHoldsExactlyTheResolvedJobs ==
    TableComplete =>
        /\ DictKeySet(qubes_status) = UNION {DictKeySet(h.release_status) : h \in Histories}
        /\ \A i \in 1..Len(qubes_status) :
              LET d == qubes_status[i][1]
                  comps == qubes_status[i][2]
              IN  /\ DictKeySet(comps) =
                        {short_name(h.component) : h \in {g \in Histories : DictHas(g.release_status, d)}}
                  /\ \A j \in 1..Len(comps) :
                        LET c == comps[j][1]
                            entry == comps[j][2]
                        IN  /\ DictKeySet(entry) \subseteq ReleaseKeys \cup {S_project_url}
                            /\ DictKeySet(entry) \cap ReleaseKeys # {}
                            /\ \A rel \in DictKeySet(entry) \cap ReleaseKeys :
                                  LET re == DictGet(entry, rel)
                                      stages == DictKeySet(re) \ {S_last_job_creation_time,
                                                                  S_last_job_time_delta}
                                      from == {h \in Histories :
                                                  /\ short_name(h.component) = c
                                                  /\ TrackKey(h.track) = rel
                                                  /\ DictHas(h.release_status, d)}
                                  IN  /\ from # {}
                                      /\ DictGet(re, S_last_job_creation_time) # <<>>
                                      /\ DictGet(re, S_last_job_time_delta) # <<>>
                                      /\ stages # {}
                                      /\ \A sw \in stages :
                                            /\ DictGet(re, sw) # <<>>
                                            /\ \E h \in from : \E s \in {BUILD, INSTALL, REPRO} :
                                                  /\ StageWord(s) = sw
                                                  /\ DictHas(DictGet(h.release_status, d), s)

\* C8 witness: two components share no distribution, and one of them has jobs
\* in the next release track only
C8_Witness ==
    /\ TableComplete
    /\ Len(qubes_status) = 2
    /\ Len(qubes_status[1][2]) = 1 /\ Len(qubes_status[2][2]) = 1
    /\ qubes_status[1][2][1][1] # qubes_status[2][2][1][1]
    /\ DictKeySet(qubes_status[1][2][1][2]) = ReleaseKeys \cup {S_project_url}
    /\ DictKeySet(qubes_status[2][2][1][2]) = {S_next_release, S_project_url}

\* C9: the table handed to the renderer is ordered by distribution name and,
\* within each distribution, by component short name, ascending
C9_TableIsSorted ==
    TableComplete =>
        /\ \A i \in 1..(Len(qubes_status) - 1) :
              StrLess(qubes_status[i][1], qubes_status[i + 1][1])
        /\ \A i \in 1..Len(qubes_status) :
              \A j \in 1..(Len(qubes_status[i][2]) - 1) :
                  StrLess(qubes_status[i][2][j][1], qubes_status[i][2][j + 1][1])

\* C9 witness: the listing returned qubes-b before qubes-a, jobs of
\* distribution d2 were met before jobs of d1, and the table lists d1 first
\* and, under it, a before b
C9_Witness ==
    /\ TableComplete
    /\ Len(projects) >= 2
    /\ ComponentName(projects[1]) = P_b /\ ComponentName(projects[2]) = P_a
    /\ Len(distros.current_release) = 2
    /\ distros.current_release[1][1] = D_2 /\ distros.current_release[2][1] = D_1
    /\ DictKeys(qubes_status) = <<D_1, D_2>>
    /\ DictKeys(qubes_status[1][2]) = << <<"a">>, <<"b">> >>

\* C10: when a remote pipeline call (a listing page or an on-demand branch
\* lookup) returns a non-success response or an error payload, the run ends
\* with a non-zero exit status, no report file is written, and no further
\* remote call is made
C10_FailedCallAbortsRun ==
    \A i \in 1..Len(events) :
        (events[i].op \in {"query_pipelines", "query_branch"} /\ events[i].failed) =>
            /\ pc = "exited" /\ exit_status = "1"
            /\ files = <<>>
            /\ i = Len(events)

\* a fetch of the builder configuration that gives no usable 'components'
\* list: the request fails, the answer is no 200, the document does not parse,
\* or it parses to something without such a list
ConfigUnusable(response) ==
    \/ response.raises
    \/ response.status_code # 200
    \/ response.yaml.kind # "dict"
    \/ ~response.yaml.components.present
    \/ response.yaml.components.entries = <<>>
PastConfigCurrent ==
    /\ pc \notin {"main", "config_current"}
    /\ ~(pc = "exited" /\ error_at \in {"main", "config_current"})
PastConfigNext ==
    /\ PastConfigCurrent
    /\ pc # "config_next"
    /\ ~(pc = "exited" /\ error_at = "config_next")

\* C11: whatever the fetch of a release's builder configuration gives (no 200,
\* a failing request, an unparsable document, a document without usable
\* 'components'), the override map of that release is empty and the run goes
\* on to the component listing; the fetch never ends the run
C11_ConfigOutcomeNeverAborts ==
    /\ error_at \notin {"config_current", "config_next"}
    /\ (PastConfigCurrent /\ ConfigUnusable(world.builder.current))
           => builder_config.current = <<>>
    /\ (PastConfigNext /\ ConfigUnusable(world.builder.next))
           => builder_config.next = <<>>

\* g2g-report.py is run and finds no token
NoToken == world.entry = "main" /\ world.env_token = "None" /\ world.file_token = "None"

\* C12: when neither GITLAB_API_TOKEN nor the token file provides a token, the
\* run is not ended before the remote is contacted: the pipeline query is
\* still attempted
C12_NoTokenStillQueries ==
    (NoToken /\ pc = "exited") =>
        \E i \in 1..Len(events) : events[i].op = "query_pipelines"

\* C12, amended: when neither GITLAB_API_TOKEN nor the token file provides a
\* token, the run ends at once with exit status 1, before any builder
\* configuration fetch or pipeline query and without writing a file; the
\* ReportBuilder of the package, when built without a token, sends its pipeline
\* query without an Authorization header
C12_NoTokenAbortsBeforeRemote ==
    /\ (NoToken /\ pc # "main") =>
           /\ pc = "exited" /\ exit_status = "1" /\ error = "SystemExit"
           /\ gitlab_token = "None"
           /\ events = <<>> /\ files = <<>>
    /\ \A i \in 1..Len(events) :
           events[i].op = "query_pipelines" =>
               (events[i].authorization <=> world.gitlab_token # "None")

\* C12 witness: a run without any token has ended with status 1, nothing
\* fetched and nothing written
C12_Witness ==
    /\ NoToken
    /\ pc = "exited" /\ exit_status = "1" /\ error_at = "main"
    /\ events = <<>> /\ files = <<>>

\* the project names of a sequence of pages, in order
RECURSIVE PagesNames(_)
PagesNames(pages) == IF pages = <<>> THEN <<>> ELSE Head(pages) \o PagesNames(Tail(pages))
ListedNames == [i \in 1..Len(projects) |-> ComponentName(projects[i])]
ListingDone ==
    \/ pc \in {"resolve", "flatten", "write_md", "write_html"}
    \/ pc = "exited" /\ error_at \notin {"main", "config_current", "config_next", "listing"}
\* the cursors of the listing requests made so far, in order
ListingCursors ==
    LET RECURSIVE Cursors(_)
        Cursors(i) == IF i > Len(events) THEN <<>>
                      ELSE (IF events[i].op = "query_pipelines" THEN <<events[i].arg>> ELSE <<>>)
                           \o Cursors(i + 1)
    IN  Cursors(1)
\* each request carries the end cursor of the page before it (none for the first)
CursorsSuccessive == \A k \in 1..Len(ListingCursors) : ListingCursors[k] = Dec(k - 1)
PagesFetched ==
    IF Len(world.pages) < MAXIMUM_PAGINATION THEN Len(world.pages) ELSE MAXIMUM_PAGINATION

\* C13: the listing requests successive pages, each with the end cursor of the
\* page before, and stops only when a page reports hasNextPage = false: for
\* any number of pages the component list holds the projects of every page
C13_ListingHoldsEveryPage ==
    /\ CursorsSuccessive
    /\ ListingDone =>
           /\ ListedNames = PagesNames(world.pages)
           /\ Len(ListingCursors) = Len(world.pages)

\* C13, amended: the listing requests successive pages, each with the end
\* cursor of the page before, and stops when a page reports hasNextPage = false
\* or after MAXIMUM_PAGINATION pages: the component list holds the projects of
\* the first MAXIMUM_PAGINATION pages, which is every page when the remote
\* holds no more than that
C13_ListingHoldsFirstPages ==
    /\ CursorsSuccessive
    /\ ListingDone =>
           /\ ListedNames = PagesNames(SubSeq(world.pages, 1, PagesFetched))
           /\ Len(ListingCursors) = PagesFetched

\* C13 witness: the remote holds more than MAXIMUM_PAGINATION pages and the
\* listing has ended with the projects of MAXIMUM_PAGINATION pages
C13_Witness ==
    /\ Len(world.pages) > MAXIMUM_PAGINATION
    /\ ListingDone
    /\ Len(projects) = MAXIMUM_PAGINATION
    /\ ListedNames[MAXIMUM_PAGINATION] = PagedProject(MAXIMUM_PAGINATION)

\* a pipeline used by a resolution of the run held a job without third segment
ResolvedJobWithoutDistribution ==
    \E h \in Histories : \E i \in 1..Len(h.pipeline_jobs.jobs) :
        Segments(h.pipeline_jobs.jobs[i]) < 3

\* C14: a job whose name has no third segment has an absent distribution and
\* raises nothing; a run whose pipelines hold such a job, beside jobs of other
\* distributions, is not ended by it and lists it under no distribution
C14_MissingDistributionTolerated ==
    /\ \A h \in Histories : \A i \in 1..Len(h.pipeline_jobs.jobs) :
          Segments(h.pipeline_jobs.jobs[i]) < 3 => distribution(h.pipeline_jobs.jobs[i]) = None
    /\ ResolvedJobWithoutDistribution =>
          /\ error_at # "flatten"
          /\ \A job \in DistrosJobs(distros.current_release) \cup DistrosJobs(distros.next_release) :
                Segments(job) >= 3
          /\ ~DictHas(qubes_status, None)

\* the phase of generate_report an event belongs to
Phase(e) ==
    CASE e.op = "builder_config" -> 1
      [] e.op = "query_pipelines" -> 2
      [] e.op = "query_branch" -> 3
      [] e.op = "write" -> 4
EventsOf(op) == {i \in 1..Len(events) : events[i].op = op}
ResolutionDone == Len(history) = 2 * Len(projects)

\* C15: in every run the builder configuration is fetched for the current
\* release, then for the next release; then come all pages of the listing; then
\* the resolution of each component, current track before next track, the only
\* phase with on-demand branch lookups; then the aggregation; then index.md is
\* written, then index.html.  No page is fetched once resolution has started
\* and no file is written before the last remote call
C15_EventsInPhaseOrder ==
    /\ \A i, j \in 1..Len(events) : i < j => Phase(events[i]) <= Phase(events[j])
    /\ EventsOf("builder_config") \subseteq {1, 2}
    /\ Len(events) >= 1 =>
           events[1].op = "builder_config" /\ events[1].arg = world.current_release
    /\ Len(events) >= 2 =>
           events[2].op = "builder_config" /\ events[2].arg = world.next_release
    /\ \A k \in 1..Len(history) :
           /\ history[k].track = IF k % 2 = 1 THEN "current_release" ELSE "next_release"
           /\ history[k].component = projects[(k + 1) \div 2]
    /\ Cardinality(EventsOf("query_branch")) <= Len(history) + 1
    /\ history # <<>> => ListingDone
    /\ \A i \in EventsOf("query_branch") : Len(events) >= 3 /\ ListingDone
    /\ (qubes_status # <<>> \/ EventsOf("write") # {}) => (ListingDone /\ ResolutionDone)
    /\ \A i \in EventsOf("write") :
           /\ i >= Len(events) - 1
           /\ events[i].arg = IF i = Len(events) /\ (i - 1) \in EventsOf("write")
                              THEN S_index_html ELSE S_index_md
    /\ DictKeys(files) \in {<<>>, <<S_index_md>>, <<S_index_md, S_index_html>>}
    /\ Len(files) = Cardinality(EventsOf("write"))

\* C15 witness: a run has ended with both files written after two builder
\* configuration fetches, a listing page and an on-demand branch lookup
C15_Witness ==
    /\ pc = "exited" /\ exit_status = "0"
    /\ EventsOf("query_branch") # {}
    /\ Len(projects) >= 1 /\ ResolutionDone
    /\ events[Len(events) - 1].arg = S_index_md
    /\ events[Len(events)].arg = S_index_html

====
